---- MODULE Spec2Model ----
(***************************************************************************)
(* A model of cloud_array/array.py: the CloudArray object (shape,          *)
(* chunk_shape, dtype, bound array, chunks_number), the Chunk handle, the  *)
(* backend the chunks and the metadata are persisted through, and the      *)
(* operations on them: grid addressing, metadata, key parsing, save and    *)
(* __getitem__.                                                            *)
(*                                                                         *)
(* Python values are represented as follows.  None is the empty sequence   *)
(* and an optional integer v is <<v>>.  A tuple is a sequence.  A slice    *)
(* object is a record [start, stop, step]; grid slices hold integer start  *)
(* and stop and an optional step, raw key slices hold optional start, stop *)
(* and step.  A dense array is a record [shape, dtype, data] with data a    *)
(* function from 0-based coordinate tuples to elements.  A call that       *)
(* raises returns                                                          *)
(* [ok |-> FALSE, err |-> kind]; one that returns gives [ok |-> TRUE,      *)
(* val |-> value].                                                         *)
(***************************************************************************)
EXTENDS Integers, Sequences, FiniteSets, TLC

VARIABLES
    shape,          \* CloudArray._shape
    chunk_shape,    \* CloudArray.chunk_shape (a plain attribute)
    dtype,          \* CloudArray._dtype
    array,          \* CloudArray.array: the bound source array, or None
    chunks_number,  \* CloudArray._chunks_number
    backend,        \* what the backend holds: [metadata, chunks]
    handle,         \* the Chunk handle last returned by get_chunk, or None
    ret,            \* the outcome of the last operation
    saved           \* the source array of the last save that completed, or None

vars == <<shape, chunk_shape, dtype, array, chunks_number, backend, handle,
          ret, saved>>

\* Bounds of the model.
MaxDim == 3
MaxExtent == 3
MaxChunk == 2
MaxSize == 8
MaxKeyLen == 2

None == <<>>
Some(v) == <<v>>
Ok(v) == [ok |-> TRUE, val |-> v]
Err(e) == [ok |-> FALSE, err |-> e]

RECURSIVE Prod(_)
Prod(s) == IF Len(s) = 0 THEN 1 ELSE Head(s) * Prod(Tail(s))

RECURSIVE FlatCat(_)
FlatCat(ss) == IF Len(ss) = 0 THEN <<>> ELSE Head(ss) \o FlatCat(Tail(ss))

\* math.ceil(a / c) on the integers of the model (exact in float arithmetic
\* for every value below 2^53).
Ceil(a, c) == IF a % c = 0 THEN a \div c ELSE a \div c + 1

\* range(start, stop, step) for a positive step, as the sequence it yields.
RECURSIVE PyRange(_, _, _)
PyRange(start, stop, step) ==
    IF start >= stop THEN <<>>
    ELSE <<start>> \o PyRange(start + step, stop, step)

\* itertools.product(*ranges): the rightmost range advances fastest.
RECURSIVE Product(_)
Product(ranges) ==
    IF Len(ranges) = 0 THEN << <<>> >>
    ELSE LET rest == Product(Tail(ranges))
             h == Head(ranges)
         IN FlatCat([k \in 1..Len(h) |->
                        [m \in 1..Len(rest) |-> <<h[k]>> \o rest[m]]])

\* zip(self.chunk_shape, self.shape) mapped to range(0, a, c).
GridRanges ==
    [j \in 1..Len(shape) |-> PyRange(0, shape[j], chunk_shape[j])]

\* A faulty variant of SliceOfOrigin: the stop is not clamped to the shape.
SliceStopNoClamp(val) ==
    [j \in 1..Len(shape) |->
        [start |-> val[j], stop |-> val[j] + chunk_shape[j], step |-> None]]

\* The slice tuple built from one element of the product (lines 122-129 and
\* 138-145 hold the same expression).
SliceOfOrigin(val) ==
    [j \in 1..Len(shape) |->
        [start |-> val[j],
         stop |-> IF val[j] + chunk_shape[j] > shape[j]
                  THEN shape[j] ELSE val[j] + chunk_shape[j],
         step |-> None]]

\* CloudArray.generate_chunks_slices, as the sequence the generator yields.
generate_chunks_slices ==
    LET p == Product(GridRanges)
    IN [n \in 1..Len(p) |-> SliceOfOrigin(p[n])]

\* A faulty variant of get_chunk_slice_by_number: one call of next(p) too few.
get_chunk_slice_by_number_short(number) ==
    LET p == Product(GridRanges)
    IN IF number <= 0
       THEN IF Len(shape) > 0 THEN Err("TypeError") ELSE Ok(<<>>)
       ELSE IF number > Len(p) THEN Err("StopIteration")
       ELSE Ok(SliceOfOrigin(p[number]))

\* CloudArray.get_chunk_slice_by_number: number+1 calls of next(p).  Running
\* off the end of the product raises StopIteration; a negative number leaves
\* val = None, and None[j] raises TypeError.
get_chunk_slice_by_number(number) ==
    LET p == Product(GridRanges)
    IN IF number < 0
       THEN IF Len(shape) > 0 THEN Err("TypeError") ELSE Ok(<<>>)
       ELSE IF number + 1 > Len(p) THEN Err("StopIteration")
       ELSE Ok(SliceOfOrigin(p[number + 1]))

\* CloudArray.count_number_of_chunks (a static method).
RECURSIVE CountFrom(_, _, _, _)
CountFrom(i, r, sh, cs) ==
    IF i > Len(sh) THEN r
    ELSE LET v == Ceil(sh[i], cs[i])
         IN CountFrom(i + 1, IF v > 0 THEN r * v ELSE r, sh, cs)

count_number_of_chunks(sh, cs) == CountFrom(1, 1, sh, cs)

\* utils.chunk2list: a slice tuple as a list of [start, stop] pairs.
chunk2list(chunk) == [j \in 1..Len(chunk) |-> <<chunk[j].start, chunk[j].stop>>]

\* str(dtype) of a numpy dtype: its name.
DtypeStr(dt) == dt.name

\* A faulty variant of get_metadata: a chunk is recorded only when it ends at
\* the far edge on every axis.
get_metadata_all_axes ==
    LET g == generate_chunks_slices
        edge == {i \in 0..(Len(g) - 1) :
                    \A j \in 1..Len(g[i + 1]) : g[i + 1][j].stop = shape[j]}
    IN [chunk_shape |-> chunk_shape,
        dtype |-> DtypeStr(dtype),
        chunks |-> [i \in edge |-> chunk2list(g[i + 1])]]

\* CloudArray.get_metadata.  The "chunks" dict is a function from the chunk
\* numbers assigned at line 111 to the lists stored for them.
get_metadata ==
    LET g == generate_chunks_slices
        edge == {i \in 0..(Len(g) - 1) :
                    \E j \in 1..Len(g[i + 1]) : g[i + 1][j].stop = shape[j]}
    IN [chunk_shape |-> chunk_shape,
        dtype |-> DtypeStr(dtype),
        chunks |-> [i \in edge |-> chunk2list(g[i + 1])]]

(***************************************************************************)
(* Dense arrays.                                                           *)
(***************************************************************************)
RECURSIVE MaxOf(_)
MaxOf(s) == IF Len(s) = 0 THEN 0
            ELSE LET m == MaxOf(Tail(s)) IN IF Head(s) > m THEN Head(s) ELSE m

\* The coordinates of an array of shape sh.
Coords(sh) == {c \in [1..Len(sh) -> 0..(MaxOf(sh) - 1)] :
                  \A j \in 1..Len(sh) : c[j] < sh[j]}

\* The row-major position of a coordinate.
RECURSIVE FlatIndex(_, _)
FlatIndex(c, sh) ==
    IF Len(c) = 0 THEN 0
    ELSE Head(c) * Prod(Tail(sh)) + FlatIndex(Tail(c), Tail(sh))

Int64 == [name |-> "int64"]
Float32 == [name |-> "float32"]
Dtypes == {Int64, Float32}

\* The arrays the model draws: element c holds base + its row-major position,
\* so all elements differ and the one-element array is [base].
Fill(sh, base) ==
    [shape |-> sh, dtype |-> Int64,
     data |-> [c \in Coords(sh) |-> base + FlatIndex(c, sh)]]

Shapes == {sh \in UNION {[1..d -> 1..MaxExtent] : d \in 1..MaxDim} :
               Prod(sh) <= MaxSize}
ChunkShapes(d) == [1..d -> 1..MaxChunk]
Arrays == {Fill(sh, b) : sh \in Shapes, b \in 0..1}

\* Coordinate c lies in the slice tuple sl.
InSliceOf(c, sl) == \A j \in 1..Len(sl) : sl[j].start <= c[j] /\ c[j] < sl[j].stop

\* ndarray.__getitem__ with a tuple of slices that lie inside the array: one
\* slice per leading axis, the remaining axes taken whole.  More slices than
\* axes raise IndexError.
ArrayGet(a, key) ==
    IF Len(key) > Len(a.shape) THEN Err("IndexError")
    ELSE LET lo == [j \in 1..Len(a.shape) |->
                       IF j <= Len(key) THEN key[j].start ELSE 0]
             sh == [j \in 1..Len(a.shape) |->
                       IF j <= Len(key) THEN key[j].stop - key[j].start
                       ELSE a.shape[j]]
         IN Ok([shape |-> sh, dtype |-> a.dtype,
                data |-> [c \in Coords(sh) |->
                            a.data[[j \in 1..Len(sh) |-> lo[j] + c[j]]]]])

(***************************************************************************)
(* Construction.                                                           *)
(***************************************************************************)
\* CloudArray.__init__: the fields of the object, or the error raised
\* (chunk_shape[i] at line 151 raises IndexError for a chunk_shape shorter
\* than the shape).
Construct(cs, arr, sh, dt) ==
    IF arr = None /\ dt = None THEN Err("Dtype must be defined.")
    ELSE IF arr = None /\ sh = None
    THEN Err("Shape must be defined by array or shape alone.")
    ELSE LET s == IF arr # None THEN arr.shape ELSE sh
             d == IF arr # None THEN arr.dtype ELSE dt
         IN IF Len(cs) < Len(s) THEN Err("IndexError")
            ELSE Ok([chunk_shape |-> cs, array |-> arr, shape |-> s, dtype |-> d,
                chunks_number |-> count_number_of_chunks(s, cs)])

\* The constructor calls the model draws: an array and nothing else, or a
\* shape and a dtype; the chunk_shape has the dimensionality of the array.
ConstructorArgs ==
    UNION {{[cs |-> cs, arr |-> arr, sh |-> None, dt |-> None] :
              cs \in ChunkShapes(Len(arr.shape))} : arr \in Arrays}
    \cup UNION {{[cs |-> cs, arr |-> None, sh |-> sh, dt |-> dt] :
                   cs \in ChunkShapes(Len(sh)), dt \in Dtypes} : sh \in Shapes}

\* The object after a construction that succeeded, over a backend that holds
\* nothing.
Init ==
    \E a \in ConstructorArgs :
        LET c == Construct(a.cs, a.arr, a.sh, a.dt)
        IN /\ c.ok
           /\ shape = c.val.shape
           /\ chunk_shape = c.val.chunk_shape
           /\ dtype = c.val.dtype
           /\ array = c.val.array
           /\ chunks_number = c.val.chunks_number
           /\ backend = [metadata |-> None, chunks |-> <<>>]
           /\ handle = None
           /\ ret = [op |-> "__init__"]
           /\ saved = None

(***************************************************************************)
(* Grid addressing and metadata, applied to the constructed object.        *)
(***************************************************************************)
Frame == UNCHANGED <<shape, chunk_shape, dtype, array, chunks_number,
                     backend, handle, saved>>

GenerateChunksSlices ==
    /\ ret' = [op |-> "generate_chunks_slices", val |-> generate_chunks_slices]
    /\ Frame

GetChunkSliceByNumber ==
    \E number \in -1..chunks_number :
        /\ ret' = [op |-> "get_chunk_slice_by_number", number |-> number,
                   res |-> get_chunk_slice_by_number(number)]
        /\ Frame

GetMetadata ==
    /\ ret' = [op |-> "get_metadata", val |-> get_metadata]
    /\ Frame

NextGrid == GenerateChunksSlices \/ GetChunkSliceByNumber \/ GetMetadata

SpecGrid == Init /\ [][NextGrid]_vars


(***************************************************************************)
(* Key parsing.  A raw key is a tuple of components: an integer            *)
(* [kind |-> "int", val] or a slice [kind |-> "slice", start, stop, step]  *)
(* whose fields are optional integers.                                     *)
(***************************************************************************)
IntKey(v) == [kind |-> "int", val |-> v]
SliceKey(a, b, c) == [kind |-> "slice", start |-> a, stop |-> b, step |-> c]

\* Python's "x or d" for an optional integer x: d when x is None or 0.
OrElse(x, d) == IF x = None \/ x = Some(0) THEN d ELSE x[1]

\* One iteration of the loop of parse_key (lines 197-224) for component val
\* at 0-based position i-1: the slice appended, or the error raised.
\* self.shape[i] raises IndexError past the last axis.
ParseComponent(val, i) ==
    IF val.kind = "int"
    THEN IF val.val < 0
         THEN IF i > Len(shape) THEN Err("IndexError")
              ELSE Ok([start |-> shape[i] + val.val,
                       stop |-> shape[i] + val.val + 1, step |-> None])
         ELSE Ok([start |-> val.val, stop |-> val.val + 1, step |-> None])
    ELSE IF i > Len(shape) THEN Err("IndexError")
    ELSE LET start == OrElse(val.start, 0)
             stop == OrElse(val.stop, shape[i])
         IN IF start > shape[i] \/ stop > shape[i]
            THEN Err("does not fit shape")
            ELSE IF start >= stop THEN Err("Start >= stop")
            ELSE Ok([start |-> IF start < 0 THEN shape[i] + start ELSE start,
                     stop |-> IF stop < 0 THEN shape[i] + stop ELSE stop,
                     step |-> Some(OrElse(val.step, 1))])

RECURSIVE ParseFrom(_, _, _)
ParseFrom(key, i, result) ==
    IF i > Len(key) THEN Ok(result)
    ELSE LET c == ParseComponent(key[i], i)
         IN IF c.ok THEN ParseFrom(key, i + 1, Append(result, c.val)) ELSE c

\* CloudArray.parse_key.
parse_key(key) == ParseFrom(key, 1, <<>>)

\* The raw keys the model draws.
KeyInts == (0 - MaxExtent)..(MaxExtent + 1)
OptKeyInts == {None} \cup {Some(v) : v \in KeyInts}
KeySteps == {None, Some(0 - 1), Some(2)}
KeyComponents ==
    {IntKey(v) : v \in KeyInts}
    \cup {SliceKey(a, b, c) : a \in OptKeyInts, b \in OptKeyInts, c \in KeySteps}
Keys == UNION {[1..n -> KeyComponents] : n \in 0..MaxKeyLen}

\* parse_key changes nothing of the object, so one application to each
\* constructed object yields every outcome it has.
ParseKey ==
    /\ ret.op = "__init__"
    /\ \E key \in Keys :
          ret' = [op |-> "parse_key", key |-> key, res |-> parse_key(key)]
    /\ Frame

\* parse_key reads the shape alone: the objects it is applied to are the
\* ones of at most MaxKeyLen axes, one per shape.
InitKey ==
    /\ Init
    /\ Len(shape) <= MaxKeyLen
    /\ array = None
    /\ dtype = Int64
    /\ \A j \in 1..Len(shape) : chunk_shape[j] = 1

NextKey == ParseKey

SpecKey == InitKey /\ [][NextKey]_vars

(***************************************************************************)
(* save.  The backend is an external collaborator: each of its calls       *)
(* either takes effect or raises, and a call that raises persists nothing. *)
(* failAt numbers the backend call of one save that raises: 0 is           *)
(* save_metadata, k is the save_chunk of chunk k-1, and a larger number    *)
(* means that no call raises.                                              *)
(***************************************************************************)
Size(a) == Prod(a.shape)

\* bool(ndarray): ambiguous for more than one element, else the truth value
\* of the element.
Truthy(a) ==
    IF Size(a) > 1 THEN Err("ValueError")
    ELSE Ok(\E c \in Coords(a.shape) : a.data[c] # 0)

\* Lines 168-170: the check that an array is declared, then
\* "array = array or self.array".
SelectSource(arg) ==
    IF arg = None /\ array = None THEN Err("Array is not declared.")
    ELSE IF arg = None THEN Ok(array)
    ELSE LET t == Truthy(arg)
         IN IF ~t.ok THEN t ELSE IF t.val THEN Ok(arg) ELSE Ok(array)

Put(f, k, v) == [x \in DOMAIN f \cup {k} |-> IF x = k THEN v ELSE f[x]]

\* Lines 173-174 from chunk i on: chunks() yields get_chunk(i) for i below
\* chunks_number (a StopIteration inside the generator surfaces as
\* RuntimeError), and each chunk is saved with array[chunk.slice]
\* (None[...] raises TypeError).  st holds the calls issued and the backend.
RECURSIVE SaveChunks(_, _, _, _)
SaveChunks(i, src, failAt, st) ==
    IF i >= chunks_number THEN [st EXCEPT !.res = Ok(None)]
    ELSE LET sl == get_chunk_slice_by_number(i)
         IN IF ~sl.ok THEN [st EXCEPT !.res = Err("RuntimeError")]
            ELSE IF src = None THEN [st EXCEPT !.res = Err("TypeError")]
            ELSE LET data == ArrayGet(src, sl.val).val
                     call == [fn |-> "save_chunk", number |-> i, data |-> data]
                 IN IF failAt = i + 1
                    THEN [st EXCEPT !.calls = Append(@, call),
                                    !.res = Err("backend")]
                    ELSE SaveChunks(i + 1, src, failAt,
                            [st EXCEPT !.calls = Append(@, call),
                                       !.backend.chunks = Put(@, i, data)])

\* CloudArray.save: the source selected, the backend calls issued in order,
\* the backend afterwards and the outcome.
save(arg, failAt) ==
    LET sel == SelectSource(arg)
        st0 == [source |-> sel, calls |-> <<>>, backend |-> backend, res |-> sel]
    IN IF ~sel.ok THEN st0
       ELSE LET md == get_metadata
                call == [fn |-> "save_metadata", metadata |-> md]
            IN IF failAt = 0
               THEN [st0 EXCEPT !.calls = <<call>>, !.res = Err("backend")]
               ELSE SaveChunks(0, sel.val, failAt,
                       [st0 EXCEPT !.calls = <<call>>,
                                   !.backend.metadata = Some(md)])

\* The array arguments the model draws for save: none, or an array of the
\* object's shape.
SaveArgs == {None} \cup {Fill(shape, b) : b \in 0..1}

Save ==
    \E arg \in SaveArgs, failAt \in 0..(chunks_number + 1) :
        LET r == save(arg, failAt)
        IN /\ ret' = [op |-> "save", arg |-> arg, source |-> r.source,
                      calls |-> r.calls, res |-> r.res]
           /\ backend' = r.backend
           /\ saved' = IF r.res.ok THEN r.source.val
                       ELSE IF r.backend = backend THEN saved ELSE None
           /\ UNCHANGED <<shape, chunk_shape, dtype, array, chunks_number, handle>>

\* The metadata property: backend.read_metadata().
ReadMetadata ==
    /\ ret' = [op |-> "metadata",
               res |-> IF backend.metadata = None THEN Err("backend")
                       ELSE Ok(backend.metadata[1])]
    /\ Frame

(***************************************************************************)
(* __getitem__.  cloud_array.utils is not part of the sources at hand:     *)
(* is_in, compute_key and the merge (sort_chunks, the concatenations of    *)
(* initial_merge_of_chunks, merge_datasets) follow their description in    *)
(* the specification of the query engine.                                  *)
(***************************************************************************)
\* utils.is_in: the chunk slice and the key overlap on every axis.
is_in(s, key) ==
    \A j \in 1..Len(s) : s[j].start < key[j].stop /\ key[j].start < s[j].stop

\* utils.compute_key: the key in the coordinates of the buffer that covers
\* the slice tuple cover.
compute_key(key, cover) ==
    [j \in 1..Len(key) |->
        [start |-> key[j].start - cover[j].start,
         stop |-> key[j].stop - cover[j].start,
         step |-> key[j].step]]

RECURSIVE MinOf(_)
MinOf(s) == IF Len(s) = 1 THEN Head(s)
            ELSE LET m == MinOf(Tail(s)) IN IF Head(s) < m THEN Head(s) ELSE m

\* The covering slice of the single buffer the merge ends with: the bounding
\* box of the candidate chunks.
MergedCover(cands) ==
    [j \in 1..Len(shape) |->
        [start |-> MinOf([k \in 1..Len(cands) |-> cands[k].slice[j].start]),
         stop |-> MaxOf([k \in 1..Len(cands) |-> cands[k].slice[j].stop]),
         step |-> None]]

\* The data of that buffer: each element comes from the chunk that covers
\* it, as read from the backend.
MergedData(cands) ==
    LET cover == MergedCover(cands)
        sh == [j \in 1..Len(shape) |-> cover[j].stop - cover[j].start]
        glob(c) == [j \in 1..Len(shape) |-> cover[j].start + c[j]]
        owner(c) == CHOOSE k \in 1..Len(cands) : InSliceOf(glob(c), cands[k].slice)
    IN [shape |-> sh, dtype |-> backend.chunks[cands[1].number].dtype,
        data |-> [c \in Coords(sh) |->
                    LET k == owner(c)
                    IN backend.chunks[cands[k].number].data[
                           [j \in 1..Len(shape) |->
                               glob(c)[j] - cands[k].slice[j].start]]]]

\* Chunk.__getitem__: backend.read_chunk(number).__getitem__(key).
ChunkGetItem(number, key) ==
    IF number \notin DOMAIN backend.chunks THEN Err("backend")
    ELSE ArrayGet(backend.chunks[number], key)

\* The candidate chunks of line 229-231, in enumeration order.
RECURSIVE Candidates(_, _, _)
Candidates(g, i, key) ==
    IF i > Len(g) THEN <<>>
    ELSE (IF is_in(g[i], key) THEN <<[number |-> i - 1, slice |-> g[i]]>>
          ELSE <<>>) \o Candidates(g, i + 1, key)

\* The slices of "[:, :, :]" at line 181.
ThreeColons == [j \in 1..3 |-> "all"]

\* CloudArray.__getitem__: the outcomes it can have.  In the general path
\* every candidate chunk is read with [:, :, :], which raises IndexError on
\* an array of fewer than three axes; which chunk is read first is decided
\* by sort_chunks, so with some candidates stored and some not either error
\* may be the one raised.
getitem(key) ==
    LET pk == parse_key(key)
    IN IF ~pk.ok THEN {pk}
       ELSE LET chunks == Candidates(generate_chunks_slices, 1, pk.val)
                stored == {k \in 1..Len(chunks) :
                              chunks[k].number \in DOMAIN backend.chunks}
            IN IF Len(chunks) = 1
               THEN {ChunkGetItem(chunks[1].number,
                                  compute_key(pk.val, chunks[1].slice))}
               ELSE IF Len(chunks) = 0 THEN {Err("IndexError")}
               ELSE IF Len(ThreeColons) > Len(shape)
               THEN {Err("IndexError") : k \in stored}
                    \cup {Err("backend") : k \in (1..Len(chunks)) \ stored}
               ELSE IF stored # 1..Len(chunks) THEN {Err("backend")}
               ELSE {ArrayGet(MergedData(chunks),
                              compute_key(pk.val, MergedCover(chunks)))}

\* The keys the model draws for __getitem__: one component per axis; every
\* axis whole, spelled slice(None, None) or slice(0, shape[j]), or the first
\* element of every axis.
ReadComponent(j, o) ==
    IF o = 1 THEN SliceKey(None, None, None)
    ELSE IF o = 2 THEN SliceKey(Some(0), Some(shape[j]), None)
    ELSE SliceKey(Some(0), Some(1), None)

ReadKeys ==
    {[j \in 1..Len(shape) |-> ReadComponent(j, o[j])] :
        o \in [1..Len(shape) -> 1..2] \cup {[j \in 1..Len(shape) |-> 3]}}

GetItem ==
    \E key \in ReadKeys :
        \E r \in getitem(key) :
            /\ ret' = [op |-> "__getitem__", key |-> key, res |-> r]
            /\ Frame

Next == Save \/ GetItem \/ ReadMetadata

Spec == Init /\ [][Next]_vars

(***************************************************************************)
(* Attribute assignment on the CloudArray, and the Chunk handle.           *)
(***************************************************************************)
\* The property setters of lines 74-100: each raises and assigns nothing.
PropertySetters == {"shape", "dtype", "chunks_number", "metadata"}

SetProperty ==
    \E name \in PropertySetters :
        /\ ret' = [op |-> "setattr", name |-> name,
                   res |-> Err("Cannot change value of " \o name \o ".")]
        /\ Frame

\* chunk_shape is assigned at line 53 as a plain attribute and has no
\* property: assigning to it rebinds it.
SetChunkShape ==
    \E cs \in ChunkShapes(Len(shape)) :
        /\ chunk_shape' = cs
        /\ ret' = [op |-> "setattr", name |-> "chunk_shape", res |-> Ok(None)]
        /\ UNCHANGED <<shape, dtype, array, chunks_number, backend, handle, saved>>

\* CloudArray.get_chunk.
get_chunk(chunk_number) ==
    LET sl == get_chunk_slice_by_number(chunk_number)
    IN IF ~sl.ok THEN sl
       ELSE Ok([chunk_number |-> chunk_number, slice |-> sl.val, dtype |-> dtype])

GetChunk ==
    \E n \in -1..chunks_number :
        LET c == get_chunk(n)
        IN /\ ret' = [op |-> "get_chunk", number |-> n, res |-> c]
           /\ handle' = IF c.ok THEN c.val ELSE handle
           /\ UNCHANGED <<shape, chunk_shape, dtype, array, chunks_number,
                          backend, saved>>

\* The Chunk.shape getter, line 23: the generator evaluates self.slice.step
\* for each element of the slice tuple, and a tuple has no attribute step.
ChunkShape(c) ==
    IF Len(c.slice) = 0 THEN Ok(<<>>) ELSE Err("AttributeError")

ReadChunkShape ==
    /\ handle # None
    /\ ret' = [op |-> "Chunk.shape", res |-> ChunkShape(handle)]
    /\ Frame

\* The Chunk.slice getter.
ReadChunkSlice ==
    /\ handle # None
    /\ ret' = [op |-> "Chunk.slice", res |-> Ok(handle.slice)]
    /\ Frame

\* The setters of Chunk.shape and Chunk.slice raise and assign nothing.
SetChunkProperty ==
    /\ handle # None
    /\ \E name \in {"shape", "slice"} :
          ret' = [op |-> "Chunk.setattr", name |-> name,
                  res |-> Err("Cannot change value of " \o name)]
    /\ Frame

NextProps ==
    \/ SetProperty
    \/ SetChunkShape
    \/ GetChunk
    \/ ReadChunkShape
    \/ ReadChunkSlice
    \/ SetChunkProperty

SpecProps == Init /\ [][NextProps]_vars

(***************************************************************************)
(* Properties of grid addressing and metadata.                             *)
(***************************************************************************)
Volume(sl) == Prod([j \in 1..Len(sl) |-> sl[j].stop - sl[j].start])

RECURSIVE SumSeq(_)
SumSeq(s) == IF Len(s) = 0 THEN 0 ELSE Head(s) + SumSeq(Tail(s))

\* The number of grid positions on axis j, and the row-major mixed-radix
\* decode of a chunk number: the position on axis j and the range there.
GridCount(j) == Ceil(shape[j], chunk_shape[j])

GridPos(n, j) ==
    (n \div Prod([k \in 1..(Len(shape) - j) |-> GridCount(j + k)])) % GridCount(j)

Decode(n) ==
    [j \in 1..Len(shape) |->
        LET q == GridPos(n, j)
            hi == (q + 1) * chunk_shape[j]
        IN [start |-> q * chunk_shape[j],
            stop |-> IF shape[j] < hi THEN shape[j] ELSE hi,
            step |-> None]]

\* C2: the slices generate_chunks_slices yields tile the array: every
\* coordinate of the array lies in exactly one of them, and their volumes
\* add up to the product of the shape.
C2_Tiling ==
    ret.op = "generate_chunks_slices" =>
        /\ \A c \in Coords(shape) :
              Cardinality({n \in 1..Len(ret.val) : InSliceOf(c, ret.val[n])}) = 1
        /\ SumSeq([n \in 1..Len(ret.val) |-> Volume(ret.val[n])]) = Prod(shape)

\* A grid of several chunks over a shape that is no multiple of the chunk
\* shape has been enumerated.
C2_Witness ==
    /\ ret.op = "generate_chunks_slices"
    /\ Len(shape) = 2
    /\ Len(ret.val) = 4
    /\ \E j \in 1..Len(shape) : shape[j] % chunk_shape[j] # 0

\* C3: for every number in [0, chunks_number), get_chunk_slice_by_number
\* returns the row-major mixed-radix decode of the number, which is the slice
\* generate_chunks_slices yields at that position, and no other number in
\* the range gives the same slice.
C3_Decode ==
    (ret.op = "get_chunk_slice_by_number"
        /\ ret.number >= 0 /\ ret.number < chunks_number) =>
        /\ ret.res.ok
        /\ ret.res.val = Decode(ret.number)
        /\ ret.number + 1 <= Len(generate_chunks_slices)
        /\ ret.res.val = generate_chunks_slices[ret.number + 1]
        /\ \A m \in 0..(chunks_number - 1) :
              m # ret.number => get_chunk_slice_by_number(m) # ret.res

\* The last chunk of a three-dimensional grid with a truncated boundary has
\* been looked up.
C3_Witness ==
    /\ ret.op = "get_chunk_slice_by_number"
    /\ Len(shape) = 3
    /\ chunks_number >= 4
    /\ ret.number = chunks_number - 1
    /\ ret.res.ok
    /\ \E j \in 1..Len(shape) :
          ret.res.val[j].stop - ret.res.val[j].start < chunk_shape[j]

\* C9: chunk number n is a key of metadata["chunks"] exactly when the slice
\* of chunk n stops at shape[j] on some axis j, and the entry stored for it
\* is the list form of the slice get_chunk_slice_by_number(n) computes.
C9_BoundaryChunks ==
    ret.op = "get_metadata" =>
        /\ DOMAIN ret.val.chunks \subseteq 0..(chunks_number - 1)
        /\ \A n \in 0..(chunks_number - 1) :
              LET sl == get_chunk_slice_by_number(n).val
              IN /\ n \in DOMAIN ret.val.chunks
                      <=> \E j \in 1..Len(shape) : sl[j].stop = shape[j]
                 /\ n \in DOMAIN ret.val.chunks =>
                      ret.val.chunks[n] = chunk2list(sl)

\* The metadata of a 3 x 2 grid has been built: the interior chunks 0 and 2
\* are left out and the chunks on a far edge are present.
C9_Witness ==
    /\ ret.op = "get_metadata"
    /\ shape = <<3, 2>>
    /\ chunk_shape = <<1, 1>>
    /\ DOMAIN ret.val.chunks = {1, 3, 4, 5}


(***************************************************************************)
(* Properties of key parsing.                                              *)
(***************************************************************************)
\* The slice a component stands for on axis i once an omitted start is 0, an
\* omitted stop is shape[i] and a negative index or bound has shape[i] added.
Rebase(v, i) == IF v < 0 THEN shape[i] + v ELSE v

Explicit(val, i) ==
    IF val.kind = "int"
    THEN [start |-> Rebase(val.val, i), stop |-> Rebase(val.val, i) + 1]
    ELSE [start |-> IF val.start = None THEN 0 ELSE Rebase(val.start[1], i),
          stop |-> IF val.stop = None THEN shape[i] ELSE Rebase(val.stop[1], i)]

InRange(sl, i) == 0 <= sl.start /\ sl.start < sl.stop /\ sl.stop <= shape[i]

\* C4: a key with one component per axis, each standing for a range inside
\* the axis once negative and omitted bounds are rebased and defaulted, is
\* normalized to exactly those ranges.
C4_NegativeAndOpenKeys ==
    (ret.op = "parse_key"
        /\ Len(ret.key) = Len(shape)
        /\ \A i \in 1..Len(shape) : InRange(Explicit(ret.key[i], i), i)) =>
        /\ ret.res.ok
        /\ Len(ret.res.val) = Len(shape)
        /\ \A i \in 1..Len(shape) :
              /\ ret.res.val[i].start = Explicit(ret.key[i], i).start
              /\ ret.res.val[i].stop = Explicit(ret.key[i], i).stop

\* C5: parse_key fails, or returns one slice per axis of the array, each
\* with 0 <= start < stop <= shape[i] and a step that is positive (or left
\* to its default).
C5_ValidatedKey ==
    (ret.op = "parse_key" /\ ret.res.ok) =>
        /\ Len(ret.res.val) = Len(shape)
        /\ \A i \in 1..Len(shape) :
              /\ InRange(ret.res.val[i], i)
              /\ ret.res.val[i].step = None \/ ret.res.val[i].step[1] > 0


(***************************************************************************)
(* Properties of save and __getitem__.                                     *)
(***************************************************************************)
\* An array argument or a bound array is present.
HasSource(arg) == arg # None \/ array # None

\* The array save is to write: the argument when one is given, else the
\* bound array.
SourceOf(arg) == IF arg # None THEN arg ELSE array

\* Every component of the key spans its whole axis.
FullRange(key) ==
    /\ Len(key) = Len(shape)
    /\ \A j \in 1..Len(key) :
          /\ key[j].kind = "slice"
          /\ key[j].start \in {None, Some(0)}
          /\ key[j].stop \in {None, Some(shape[j])}
          /\ key[j].step \in {None, Some(1)}

\* C1: once a save has completed, reading the full extent returns an array
\* equal to the one saved, whatever the dimensionality and whether one
\* chunk or several hold it.
C1_RoundTrip ==
    (ret.op = "__getitem__" /\ FullRange(ret.key) /\ saved # None) =>
        ret.res = Ok(saved)

\* C6: a save that has a source array calls save_metadata once and first,
\* then save_chunk for the chunk numbers 0, 1, ... in ascending order with
\* the source sliced at the chunk's slice; every chunk is written when no
\* call fails, and a failing call is the last one issued, with the metadata
\* and the chunks before it persisted.
C6_MetadataThenChunks ==
    (ret.op = "save" /\ HasSource(ret.arg)) =>
        LET n == Len(ret.calls)
        IN /\ n >= 1
           /\ ret.calls[1].fn = "save_metadata"
           /\ ret.calls[1].metadata = get_metadata
           /\ \A k \in 2..n :
                 /\ ret.calls[k].fn = "save_chunk"
                 /\ ret.calls[k].number = k - 2
                 /\ ret.calls[k].data =
                      ArrayGet(SourceOf(ret.arg),
                               get_chunk_slice_by_number(k - 2).val).val
           /\ n <= chunks_number + 1
           /\ ret.res.ok => n = chunks_number + 1
           /\ ~ret.res.ok =>
                 /\ ret.res.err = "backend"
                 /\ n >= 2 => backend.metadata = Some(ret.calls[1].metadata)
                 /\ \A k \in 2..(n - 1) :
                       /\ ret.calls[k].number \in DOMAIN backend.chunks
                       /\ backend.chunks[ret.calls[k].number] = ret.calls[k].data

\* C7: save selects the argument when one is given and the bound array
\* otherwise, and raises "Array is not declared." exactly when neither is
\* present, without a backend call.
C7_SourceSelection ==
    ret.op = "save" =>
        /\ HasSource(ret.arg) => ret.source = Ok(SourceOf(ret.arg))
        /\ ~HasSource(ret.arg) =>
              /\ ret.res = Err("Array is not declared.")
              /\ ret.calls = <<>>
        /\ ret.res = Err("Array is not declared.") => ~HasSource(ret.arg)


(***************************************************************************)
(* Properties of attribute assignment and of the Chunk handle.             *)
(***************************************************************************)
\* C8: every assignment to shape, chunk_shape, dtype, chunks_number or
\* metadata raises, and chunks_number equals
\* count_number_of_chunks(shape, chunk_shape) throughout.
C8_FieldsImmutable ==
    /\ ret.op = "setattr" => ~ret.res.ok
    /\ chunks_number = count_number_of_chunks(shape, chunk_shape)

\* C10: reading Chunk.shape of a handle returned by get_chunk gives the
\* extents stop - start of its slice, each at most chunk_shape[j], and
\* assigning to Chunk.shape or Chunk.slice raises.
C10_ChunkShape ==
    /\ ret.op = "Chunk.shape" =>
          /\ ret.res.ok
          /\ ret.res.val = [j \in 1..Len(handle.slice) |->
                               handle.slice[j].stop - handle.slice[j].start]
          /\ \A j \in 1..Len(handle.slice) : ret.res.val[j] <= chunk_shape[j]
    /\ ret.op = "Chunk.setattr" => ~ret.res.ok

====
